---- MODULE Spec2Model ----
(***************************************************************************)
(* Model of the Amazon Product Advertising request signer of               *)
(* productiongo/bestbooktolearn: package amazon (generateAmazonURL,        *)
(* setTimestamp, signAmazonURL, genSignAndFetch, Search) and package books *)
(* (API.Search).  Strings are sequences of one-character strings so that   *)
(* escaping, parsing, splitting and sorting are computed, not assumed.     *)
(***************************************************************************)
EXTENDS Integers, Sequences, FiniteSets, TLC

(* ---------------------------------------------------------------------- *)
(* Bounds of the model                                                     *)
(* ---------------------------------------------------------------------- *)
\* longest keywords string a caller passes to books.API.Search
MaxKeywordLen == 2
\* clock readings time.Now() can return are 0..MaxClock seconds past a fixed minute
MaxClock == 1
\* number of Search calls that may run concurrently on one client value
NumCalls == 2

(* ---------------------------------------------------------------------- *)
(* Characters and strings                                                  *)
(* ---------------------------------------------------------------------- *)
\* the byte value of every character the model uses (ASCII)
CodeOf(ch) ==
    CASE ch = "\n" -> 10
      [] ch = " " -> 32
      [] ch = "%" -> 37
      [] ch = "&" -> 38
      [] ch = "+" -> 43
      [] ch = "," -> 44
      [] ch = "-" -> 45
      [] ch = "." -> 46
      [] ch = "/" -> 47
      [] ch = "0" -> 48
      [] ch = "1" -> 49
      [] ch = "2" -> 50
      [] ch = "3" -> 51
      [] ch = "4" -> 52
      [] ch = "5" -> 53
      [] ch = "6" -> 54
      [] ch = "7" -> 55
      [] ch = "8" -> 56
      [] ch = "9" -> 57
      [] ch = ":" -> 58
      [] ch = ";" -> 59
      [] ch = "=" -> 61
      [] ch = "?" -> 63
      [] ch = "A" -> 65
      [] ch = "B" -> 66
      [] ch = "C" -> 67
      [] ch = "D" -> 68
      [] ch = "E" -> 69
      [] ch = "F" -> 70
      [] ch = "G" -> 71
      [] ch = "H" -> 72
      [] ch = "I" -> 73
      [] ch = "J" -> 74
      [] ch = "K" -> 75
      [] ch = "L" -> 76
      [] ch = "M" -> 77
      [] ch = "N" -> 78
      [] ch = "O" -> 79
      [] ch = "P" -> 80
      [] ch = "Q" -> 81
      [] ch = "R" -> 82
      [] ch = "S" -> 83
      [] ch = "T" -> 84
      [] ch = "U" -> 85
      [] ch = "V" -> 86
      [] ch = "W" -> 87
      [] ch = "X" -> 88
      [] ch = "Y" -> 89
      [] ch = "Z" -> 90
      [] ch = "_" -> 95
      [] ch = "a" -> 97
      [] ch = "b" -> 98
      [] ch = "c" -> 99
      [] ch = "d" -> 100
      [] ch = "e" -> 101
      [] ch = "f" -> 102
      [] ch = "g" -> 103
      [] ch = "h" -> 104
      [] ch = "i" -> 105
      [] ch = "j" -> 106
      [] ch = "k" -> 107
      [] ch = "l" -> 108
      [] ch = "m" -> 109
      [] ch = "n" -> 110
      [] ch = "o" -> 111
      [] ch = "p" -> 112
      [] ch = "q" -> 113
      [] ch = "r" -> 114
      [] ch = "s" -> 115
      [] ch = "t" -> 116
      [] ch = "u" -> 117
      [] ch = "v" -> 118
      [] ch = "w" -> 119
      [] ch = "x" -> 120
      [] ch = "y" -> 121
      [] ch = "z" -> 122
      [] ch = "~" -> 126

Chars ==
    {"\n", " ", "%", "&", "+", ",", "-", ".", "/", "0", "1", "2",
     "3", "4", "5", "6", "7", "8", "9", ":", ";", "=", "?", "A",
     "B", "C", "D", "E", "F", "G", "H", "I", "J", "K", "L", "M",
     "N", "O", "P", "Q", "R", "S", "T", "U", "V", "W", "X", "Y",
     "Z", "_", "a", "b", "c", "d", "e", "f", "g", "h", "i", "j",
     "k", "l", "m", "n", "o", "p", "q", "r", "s", "t", "u", "v",
     "w", "x", "y", "z", "~"}

\* the same as a table
Code == [ch \in Chars |-> CodeOf(ch)]

HexDigits == <<"0", "1", "2", "3", "4", "5", "6", "7", "8", "9", "A", "B", "C", "D", "E", "F">>

StrOperation == <<"O", "p", "e", "r", "a", "t", "i", "o", "n">>

StrService == <<"S", "e", "r", "v", "i", "c", "e">>

StrAWSAccessKeyId == <<"A", "W", "S", "A", "c", "c", "e", "s", "s", "K", "e", "y", "I", "d">>

StrVersion == <<"V", "e", "r", "s", "i", "o", "n">>

StrAssociateTag == <<"A", "s", "s", "o", "c", "i", "a", "t", "e", "T", "a", "g">>

StrTimestamp == <<"T", "i", "m", "e", "s", "t", "a", "m", "p">>

StrSignature == <<"S", "i", "g", "n", "a", "t", "u", "r", "e">>

StrKeywords == <<"K", "e", "y", "w", "o", "r", "d", "s">>

StrResponseGroup == <<"R", "e", "s", "p", "o", "n", "s", "e", "G", "r", "o", "u", "p">>

StrItemPage == <<"I", "t", "e", "m", "P", "a", "g", "e">>

StrSearchIndex == <<"S", "e", "a", "r", "c", "h", "I", "n", "d", "e", "x">>

ServiceName == <<"A", "W", "S", "E", "C", "o", "m", "m", "e", "r", "c", "e", "S", "e", "r", "v", "i", "c", "e">>

ApiVersion == <<"2", "0", "1", "3", "-", "0", "8", "-", "0", "1">>

SearchResponseGroup == <<"I", "m", "a", "g", "e", "s", ",", "I", "t", "e", "m", "A", "t", "t", "r", "i", "b", "u", "t", "e", "s", ",", "S", "m", "a", "l", "l", ",", "E", "d", "i", "t", "o", "r", "i", "a", "l", "R", "e", "v", "i", "e", "w">>

StrItemSearch == <<"I", "t", "e", "m", "S", "e", "a", "r", "c", "h">>

StrItemLookup == <<"I", "t", "e", "m", "L", "o", "o", "k", "u", "p">>

StrBooks == <<"B", "o", "o", "k", "s">>

SchemeHttp == <<"h", "t", "t", "p">>

PathOncaXml == <<"/", "o", "n", "c", "a", "/", "x", "m", "l">>

StrGET == <<"G", "E", "T">>

Base64Alphabet == <<"A", "B", "C", "D", "E", "F", "G", "H", "I", "J", "K", "L", "M", "N", "O", "P", "Q", "R", "S", "T", "U", "V", "W", "X", "Y", "Z", "a", "b", "c", "d", "e", "f", "g", "h", "i", "j", "k", "l", "m", "n", "o", "p", "q", "r", "s", "t", "u", "v", "w", "x", "y", "z", "0", "1", "2", "3", "4", "5", "6", "7", "8", "9", "+", "/">>

(* ---------------------------------------------------------------------- *)
(* String primitives (Go strings, sort and strconv packages)               *)
(* ---------------------------------------------------------------------- *)
\* the one element of a one-element set; {e(x) : x \in {v}} computes v once
TheOne(S) == CHOOSE x \in S : TRUE

\* the first position of ch in s, which holds ch
FirstIndex(s, ch) ==
    CHOOSE i \in 1..Len(s) : s[i] = ch /\ \A j \in 1..(i - 1) : s[j] # ch

Contains(s, ch) == \E i \in 1..Len(s) : s[i] = ch

\* concatenation of ss[lo..hi], a sequence of strings
RECURSIVE Flatten(_, _, _)
Flatten(ss, lo, hi) ==
    IF lo > hi THEN <<>>
    ELSE IF lo = hi THEN ss[lo]
    ELSE LET mid == (lo + hi) \div 2
         IN  Flatten(ss, lo, mid) \o Flatten(ss, mid + 1, hi)

Concat(ss) == Flatten(ss, 1, Len(ss))

\* strings.Join(parts, sep)
Join(parts, sep) ==
    Concat([i \in 1..(2 * Len(parts) - 1) |->
                IF i % 2 = 1 THEN parts[(i + 1) \div 2] ELSE sep])

\* strings.Split(s, ch) for a one-character separator
RECURSIVE Split(_, _)
Split(s, ch) ==
    IF ~Contains(s, ch) THEN <<s>>
    ELSE TheOne({<<SubSeq(s, 1, i - 1)>> \o Split(SubSeq(s, i + 1, Len(s)), ch) :
                    i \in {FirstIndex(s, ch)}})

\* strings.Cut(s, ch): the text before and after the first ch
CutBefore(s, ch) ==
    IF ~Contains(s, ch) THEN s ELSE SubSeq(s, 1, FirstIndex(s, ch) - 1)

CutAfter(s, ch) ==
    IF ~Contains(s, ch) THEN <<>> ELSE SubSeq(s, FirstIndex(s, ch) + 1, Len(s))

\* strings.Replace(s, ch, repl, -1) for a one-character old string
ReplaceAll(s, ch, repl) == Join(Split(s, ch), repl)

\* Go's string order: bytewise lexicographic, a proper prefix first: a is
\* less than b when at the first position i where they part a has ended
\* or holds the smaller byte
StrLess(a, b) ==
    \E i \in 1..Len(b) :
        /\ i <= Len(a) + 1
        /\ \A j \in 1..(i - 1) : a[j] = b[j]
        /\ (i = Len(a) + 1 \/ Code[a[i]] < Code[b[i]])

StrLeq(a, b) == a = b \/ StrLess(a, b)

InsertSorted(sorted, x) ==
    LET k == Cardinality({i \in 1..Len(sorted) : StrLeq(sorted[i], x)})
    IN  SubSeq(sorted, 1, k) \o <<x>> \o SubSeq(sorted, k + 1, Len(sorted))

\* the strings left in the order given
Unsorted(ss) == ss

\* sort.Strings(ss)
RECURSIVE SortStrings(_)
SortStrings(ss) ==
    IF ss = <<>> THEN <<>>
    ELSE InsertSorted(SortStrings(Tail(ss)), Head(ss))

\* the keys of a map in ascending order (url.Values.Encode sorts the keys)
RECURSIVE SortedKeys(_)
SortedKeys(S) ==
    IF S = {} THEN <<>>
    ELSE LET m == CHOOSE x \in S : \A y \in S : StrLeq(x, y)
         IN  <<m>> \o SortedKeys(S \ {m})

RECURSIVE Digits(_)
Digits(n) ==
    IF n < 10 THEN <<HexDigits[n + 1]>>
    ELSE Digits(n \div 10) \o <<HexDigits[(n % 10) + 1]>>

\* strconv.FormatInt(int64(n), 10)
FormatInt(n) == IF n < 0 THEN <<"-">> \o Digits(-n) ELSE Digits(n)

(* ---------------------------------------------------------------------- *)
(* net/url: QueryEscape, QueryUnescape, Values, Encode, ParseQuery         *)
(* ---------------------------------------------------------------------- *)
IsAlnum(ch) ==
    \/ Code[ch] \in 48..57
    \/ Code[ch] \in 65..90
    \/ Code[ch] \in 97..122

\* url.shouldEscape(c, encodeQueryComponent) is false exactly for these
Unreserved(ch) == IsAlnum(ch) \/ ch \in {"-", "_", ".", "~"}

EscapeChar(ch) ==
    IF ch = " " THEN <<"+">>
    ELSE IF Unreserved(ch) THEN <<ch>>
    ELSE <<"%", HexDigits[(Code[ch] \div 16) + 1], HexDigits[(Code[ch] % 16) + 1]>>

\* url.QueryEscape(s)
QueryEscape(s) == Concat([i \in 1..Len(s) |-> EscapeChar(s[i])])

IsHex(ch) ==
    \/ Code[ch] \in 48..57
    \/ Code[ch] \in 65..70
    \/ Code[ch] \in 97..102

UnHex(ch) ==
    IF Code[ch] \in 48..57 THEN Code[ch] - 48
    ELSE IF Code[ch] \in 65..70 THEN Code[ch] - 55
    ELSE Code[ch] - 87

\* the character with byte value n ("?" for a byte outside the model's table)
CharOf(n) ==
    IF \E ch \in Chars : Code[ch] = n
    THEN CHOOSE ch \in Chars : Code[ch] = n
    ELSE "?"

\* url.QueryUnescape(s): [ok, val].  Every % must be followed by two hex
\* digits, else ok is FALSE; as a hex digit is never a %, every % of s
\* starts an escape, so position i is decoded on its own: an escape start
\* gives its byte, the two digits after a % give nothing, + gives a space
QueryUnescape(s) ==
    IF \E i \in 1..Len(s) :
          s[i] = "%" /\ (i + 2 > Len(s) \/ ~IsHex(s[i + 1]) \/ ~IsHex(s[i + 2]))
    THEN [ok |-> FALSE, val |-> <<>>]
    ELSE [ok |-> TRUE,
          val |-> Concat([i \in 1..Len(s) |->
                    IF s[i] = "%"
                    THEN <<CharOf(16 * UnHex(s[i + 1]) + UnHex(s[i + 2]))>>
                    ELSE IF (i > 1 /\ s[i - 1] = "%") \/ (i > 2 /\ s[i - 2] = "%")
                    THEN <<>>
                    ELSE IF s[i] = "+" THEN <<" ">>
                    ELSE <<s[i]>>])]

\* url.Values is map[string][]string: a function from keys to value lists
EmptyValues == [k \in {} |-> <<>>]

\* url.Values.Add(key, value): appends to the key's list
ValuesAdd(v, key, value) ==
    [k \in DOMAIN v \cup {key} |->
        IF k = key
        THEN (IF key \in DOMAIN v THEN Append(v[key], value) ELSE <<value>>)
        ELSE v[k]]

\* url.Values.Set(key, value): replaces the key's list by the one value
ValuesSet(v, key, value) ==
    [k \in DOMAIN v \cup {key} |-> IF k = key THEN <<value>> ELSE v[k]]

\* the key=value tokens of one key, every part escaped
KeyTokens(v, key) ==
    [i \in 1..Len(v[key]) |-> QueryEscape(key) \o <<"=">> \o QueryEscape(v[key][i])]

\* url.Values.Encode(): keys ascending, key=value joined by &
Encode(v) ==
    LET keys == SortedKeys(DOMAIN v)
    IN  Join(Concat([i \in 1..Len(keys) |-> KeyTokens(v, keys[i])]), <<"&">>)

\* one token of a query, cut at the first = and unescaped: [ok, key, val]
ParseToken(tok) ==
    TheOne({[ok |-> k.ok /\ v.ok, key |-> k.val, val |-> v.val] :
                k \in {QueryUnescape(CutBefore(tok, "="))},
                v \in {QueryUnescape(CutAfter(tok, "="))}})

\* url.ParseQuery over the tokens of a query: [ok, values]; a token with a
\* semicolon or a malformed escape is dropped and makes ok FALSE
RECURSIVE ParseTokens(_, _)
ParseTokens(toks, acc) ==
    IF toks = <<>> THEN acc
    ELSE IF Contains(Head(toks), ";")
    THEN ParseTokens(Tail(toks), [acc EXCEPT !.ok = FALSE])
    ELSE IF Head(toks) = <<>>
    THEN ParseTokens(Tail(toks), acc)
    ELSE TheOne({ParseTokens(Tail(toks),
                    IF t.ok
                    THEN [acc EXCEPT !.values = ValuesAdd(@, t.key, t.val)]
                    ELSE [acc EXCEPT !.ok = FALSE]) :
                        t \in {ParseToken(Head(toks))}})

ParseQuery(query) ==
    ParseTokens(Split(query, "&"), [ok |-> TRUE, values |-> EmptyValues])

(* ---------------------------------------------------------------------- *)
(* Inputs the model draws from                                             *)
(* ---------------------------------------------------------------------- *)
StrItemId == <<"I", "t", "e", "m", "I", "d">>

StrItemId1 == <<"I", "t", "e", "m", "I", "d", ".", "1">>

StrOddKey == <<"k", ":">>

StrCommaValue == <<"x", ",", "y">>

GoodHost == <<"a", "m", "z", ".", "c", "o", "m">>

BadEscapeHost == <<"%", "z">>

NoSchemeHost == <<":", "a">>

TestAccessKey == <<"A", "K">>

TestSecretKey == <<"s", "k">>

TestAssociateTag == <<"t", "g">>

TimestampMinute == <<"2", "0", "1", "8", "-", "0", "1", "-", "0", "1", "T", "0", "0", ":", "0", "0", ":">>

SchemeSep == <<":", "/", "/">>

SignatureParam == <<"&", "S", "i", "g", "n", "a", "t", "u", "r", "e", "=">>

Calls == 1..NumCalls

Clock == 0..MaxClock

\* characters of caller keywords: plain, space, and two reserved characters
KwChars == {"a", " ", ":", "%"}

Keywords == UNION {[1..n -> KwChars] : n \in 0..MaxKeywordLen}

\* keywords of the concurrent calls
ConcKeywords == {<<"a", " ">>}

\* page numbers are passed through uninterpreted, negative ones included
Pages == {-1, 1}

ConcPages == {1}

Hosts == {GoodHost, BadEscapeHost, NoSchemeHost}

Clients == {"nil", "custom"}

\* parameter mappings of direct genSignAndFetch calls: a key that collides
\* with a fixed key, a key that is a prefix of another, a key with a colon
GenKeys == {StrOperation, StrItemId, StrItemId1, StrOddKey}

GenVals == {<<>>, StrCommaValue}

GenParams == UNION {[ks -> GenVals] : ks \in SUBSET GenKeys}

\* every order in which Go may iterate over a map with these keys
Orders(S) ==
    {o \in [1..Cardinality(S) -> S] : \A i, j \in DOMAIN o : i # j => o[i] # o[j]}

(* response bodies the remote service may send *)
ImageOne == [URL |-> "img", Width |-> 300, Height |-> 500]

ItemWithImage ==
    [Title |-> "t1", EAN |-> "978", DetailPageURL |-> "u1", LargeImage |-> <<ImageOne>>]

ItemNoImage ==
    [Title |-> "t2", EAN |-> "979", DetailPageURL |-> "u2", LargeImage |-> <<>>]

BodyMalformed ==
    [text |-> "garbage", wellFormed |-> FALSE, IsValid |-> FALSE, Items |-> <<>>]

BodyInvalidEmpty ==
    [text |-> "invalid", wellFormed |-> TRUE, IsValid |-> FALSE, Items |-> <<>>]

BodyItems ==
    [text |-> "items", wellFormed |-> TRUE, IsValid |-> TRUE,
     Items |-> <<ItemWithImage, ItemNoImage>>]

\* the empty string genSignAndFetch returns next to an error
EmptyBody ==
    [text |-> "", wellFormed |-> FALSE, IsValid |-> FALSE, Items |-> <<>>]

Bodies == {BodyMalformed, BodyInvalidEmpty, BodyItems}

\* what Client.Get and ioutil.ReadAll can do
Outcomes ==
    {[kind |-> "transport", body |-> EmptyBody], [kind |-> "read", body |-> EmptyBody]}
    \cup {[kind |-> "ok", body |-> b] : b \in Bodies}

ConcOutcomes == {[kind |-> "ok", body |-> BodyItems]}

(* ---------------------------------------------------------------------- *)
(* Values of the program                                                   *)
(* ---------------------------------------------------------------------- *)
\* error values: kind names the failing call, carries what its text holds
NoErr == [kind |-> "nil", carries |-> "nothing"]

ErrParse == [kind |-> "url.Parse", carries |-> "host"]

ErrParseQuery == [kind |-> "url.ParseQuery", carries |-> "escape"]

ErrMac == [kind |-> "hmac.Write", carries |-> "nothing"]

ErrTransport == [kind |-> "Client.Get", carries |-> "url"]

ErrRead == [kind |-> "ioutil.ReadAll", carries |-> "nothing"]

\* *xml.SyntaxError: a line number and a message
ErrXml == [kind |-> "xml.Unmarshal", carries |-> "line"]

NoURL == [Scheme |-> <<>>, Host |-> <<>>, Path |-> <<>>, RawQuery |-> <<>>]

ZeroISR == [IsValid |-> FALSE, Items |-> <<>>]

NoArgs == [keywords |-> <<>>, page |-> 0]

NoHist ==
    [trace |-> <<>>, clockSamples |-> 0, gets |-> 0, failed |-> "none", now |-> -1]

(* ---------------------------------------------------------------------- *)
(* package amazon                                                          *)
(* ---------------------------------------------------------------------- *)
\* url.Parse(api.Host) for a host with no scheme, query or fragment: it
\* fails on a leading colon and on a malformed % escape
HostParseFails(host) ==
    \/ (host # <<>> /\ host[1] = ":")
    \/ ~QueryUnescape(host).ok

\* the five fixed parameters, added in this order
FixedParameters(api, Operation) ==
    <<  <<StrOperation, Operation>>,
        <<StrService, ServiceName>>,
        <<StrAWSAccessKeyId, api.AccessKey>>,
        <<StrVersion, ApiVersion>>,
        <<StrAssociateTag, api.AssociateTag>>  >>

RECURSIVE AddAll(_, _)
AddAll(v, pairs) ==
    IF pairs = <<>> THEN v
    ELSE AddAll(ValuesAdd(v, Head(pairs)[1], Head(pairs)[2]), Tail(pairs))

\* a caller parameter added next to the fixed one instead of replacing it
MergeByAdd(v, key, value) == ValuesAdd(v, key, value)

\* the body of the loop over Parameters: values.Set(k, v)
MergeOne(v, key, value) == ValuesSet(v, key, value)

RECURSIVE MergeAll(_, _, _)
MergeAll(v, Parameters, order) ==
    IF order = <<>> THEN v
    ELSE MergeAll(MergeOne(v, Head(order), Parameters[Head(order)]),
                  Parameters, Tail(order))

\* values after the five Adds and the loop over Parameters, which Go runs
\* in the map iteration order `order`
MergedValues(api, Operation, Parameters, order) ==
    MergeAll(AddAll(EmptyValues, FixedParameters(api, Operation)), Parameters, order)

\* generateAmazonURL around the merge: [ok, url], values being the merged
\* parameters
generateAmazonURL(api, values) ==
    IF HostParseFails(api.Host)
    THEN [ok |-> FALSE, url |-> NoURL]
    ELSE [ok |-> TRUE,
          url |-> [Scheme |-> SchemeHttp, Host |-> api.Host,
                   Path |-> PathOncaXml, RawQuery |-> Encode(values)]]

TwoDigits(n) == <<HexDigits[(n \div 10) + 1], HexDigits[(n % 10) + 1]>>

\* time.Now().UTC().Format(time.RFC3339) at second t of the modelled minute
FormatRFC3339(t) == TimestampMinute \o TwoDigits(t) \o <<"Z">>

\* the arguments of values.Set exchanged: the time as key
setTimestampSwapped(origURL, t) ==
    TheOne({IF ~q.ok
            THEN [ok |-> FALSE, url |-> origURL, sampled |-> 0]
            ELSE [ok |-> TRUE, sampled |-> 1,
                  url |-> [origURL EXCEPT !.RawQuery =
                              Encode(ValuesSet(q.values, FormatRFC3339(t), StrTimestamp))]] :
                q \in {ParseQuery(origURL.RawQuery)}})

\* setTimestamp: [ok, url, sampled]; the clock is read, as t, only once
\* the query has parsed
setTimestamp(origURL, t) ==
    TheOne({IF ~q.ok
            THEN [ok |-> FALSE, url |-> origURL, sampled |-> 0]
            ELSE [ok |-> TRUE, sampled |-> 1,
                  url |-> [origURL EXCEPT !.RawQuery =
                              Encode(ValuesSet(q.values, StrTimestamp, FormatRFC3339(t)))]] :
                q \in {ParseQuery(origURL.RawQuery)}})

\* weighted byte sum of s[lo..hi]
RECURSIVE WeightedSum(_, _, _)
WeightedSum(s, lo, hi) ==
    IF lo > hi THEN 0
    ELSE IF lo = hi THEN lo * Code[s[lo]]
    ELSE LET mid == (lo + hi) \div 2
         IN  WeightedSum(s, lo, mid) + WeightedSum(s, mid + 1, hi)

\* hmac.New(sha256.New, key) over msg, then base64.StdEncoding: a 12-bit
\* keyed checksum stands for the 256-bit MAC; like the real one its text is
\* over the base64 alphabet and ends in the padding character
HmacBase64(key, msg) ==
    TheOne({<<Base64Alphabet[(d \div 64) + 1], Base64Alphabet[(d % 64) + 1], "=">> :
                d \in {(WeightedSum(key, 1, Len(key)) * 31
                           + WeightedSum(msg, 1, Len(msg))) % 4096}})

\* url.URL.String() of a URL with scheme, host, path and query
URLString(u) == u.Scheme \o SchemeSep \o u.Host \o u.Path \o <<"?">> \o u.RawQuery

\* signAmazonURL from the string-to-sign on: MAC, base64, escape, append
SignSorted(origURL, api, sortedParams) ==
    LET toSign == StrGET \o <<"\n">> \o origURL.Host \o <<"\n">> \o origURL.Path
                  \o <<"\n">> \o sortedParams
        hash == QueryEscape(HmacBase64(api.SecretKey, toSign))
    IN  TheOne({[ok |-> TRUE, url |-> newURL, canonical |-> sortedParams,
                 signed |-> URLString(newURL)] :
                    newURL \in {[origURL EXCEPT !.RawQuery =
                                    sortedParams \o SignatureParam \o hash]}})

\* signAmazonURL after the two replacements: split, sort, join, then sign
SignQuery(origURL, api, escapeURL) ==
    TheOne({SignSorted(origURL, api, sortedParams) :
                sortedParams \in {Join(SortStrings(Split(escapeURL, "&")), <<"&">>)}})

\* the query decoded before it is signed
signAmazonURLDecoded(origURL, api) ==
    SignQuery(origURL, api, QueryUnescape(origURL.RawQuery).val)

\* signAmazonURL: [ok, url, canonical, signed]; hasher.Write never fails
signAmazonURL(origURL, api) ==
    SignQuery(origURL, api,
              ReplaceAll(ReplaceAll(origURL.RawQuery, ",", <<"%", "2", "C">>),
                         ":", <<"%", "3", "A">>))

\* the next stage of genSignAndFetch with signing before the Timestamp
genSignAndFetchSignFirst(stage, failed) ==
    CASE stage = "generate"  -> IF failed THEN "return" ELSE "sign"
      [] stage = "sign"      -> IF failed THEN "return" ELSE "timestamp"
      [] stage = "timestamp" -> "fetch"
      [] OTHER               -> "return"

\* the control flow of genSignAndFetch: the stage after `stage`, given
\* whether it failed; the result of setTimestamp is not looked at
genSignAndFetchNext(stage, failed) ==
    CASE stage = "generate"  -> IF failed THEN "return" ELSE "timestamp"
      [] stage = "timestamp" -> "sign"
      [] stage = "sign"      -> IF failed THEN "return" ELSE "fetch"
      [] OTHER               -> "return"

\* a pointer receiver: the method works on the caller's struct
PointerReceiver(callerAPI, localAPI) == localAPI

\* genSignAndFetch and Search have value receivers: what the method does to
\* its copy localAPI leaves the caller's struct callerAPI as it was
ValueReceiver(callerAPI, localAPI) == callerAPI

\* the keywords put into the mapping as given
SearchParamsUnescaped(index, keywords, page) ==
    (StrKeywords :> keywords) @@
    (StrResponseGroup :> SearchResponseGroup) @@
    (StrItemPage :> FormatInt(page)) @@
    (StrSearchIndex :> index)

\* the parameter mapping Search builds
SearchParams(index, keywords, page) ==
    (StrKeywords :> QueryEscape(keywords)) @@
    (StrResponseGroup :> SearchResponseGroup) @@
    (StrItemPage :> FormatInt(page)) @@
    (StrSearchIndex :> index)

\* the error of genSignAndFetch not looked at
SearchNextSwallow(e) == "decode"

\* Search after genSignAndFetch returned error e
SearchNext(e) == IF e # NoErr THEN "books" ELSE "decode"

\* a response whose request was not valid refused
xmlUnmarshalStrict(b) ==
    IF b.wellFormed /\ b.IsValid
    THEN [err |-> NoErr, isr |-> [IsValid |-> b.IsValid, Items |-> b.Items]]
    ELSE [err |-> ErrXml, isr |-> ZeroISR]

\* xml.Unmarshal([]byte(result), &isr): IsValid is one more decoded field
xmlUnmarshal(b) ==
    IF b.wellFormed
    THEN [err |-> NoErr, isr |-> [IsValid |-> b.IsValid, Items |-> b.Items]]
    ELSE [err |-> ErrXml, isr |-> ZeroISR]

(* ---------------------------------------------------------------------- *)
(* package books                                                           *)
(* ---------------------------------------------------------------------- *)
BookOf(item) ==
    [Title |-> item.Title, ISBN |-> item.EAN, URL |-> item.DetailPageURL,
     LargeImage |-> IF item.LargeImage = <<>> THEN <<>>
                    ELSE <<[URL |-> item.LargeImage[1].URL,
                            Width |-> item.LargeImage[1].Width,
                            Height |-> item.LargeImage[1].Height]>>]

\* a Go slice: nil, or a list that may be empty
NilSlice == [isNil |-> TRUE, list |-> <<>>]

\* books.API.Search after amazon.Search returned (r, e): [books, err];
\* books is the nil slice next to an error and books = []Book{} filled
\* from the items otherwise
BooksResult(r, e) ==
    IF e # NoErr THEN [books |-> NilSlice, err |-> e]
    ELSE [books |-> [isNil |-> FALSE,
                     list |-> [i \in 1..Len(r.Items) |-> BookOf(r.Items[i])]],
          err |-> NoErr]

(* ---------------------------------------------------------------------- *)
(* State                                                                   *)
(* ---------------------------------------------------------------------- *)
VARIABLES
    config,     \* the client value the callers hold (AmazonProductAPI)
    config0,    \* the client value as constructed
    pc,         \* per call: the stage it is about to run
    entry,      \* per call: "books" (books.API.Search) or "direct"
    args,       \* per call: the keywords and page given to books.API.Search
    op,         \* per call: Operation of genSignAndFetch
    params,     \* per call: Parameters of genSignAndFetch
    params0,    \* per call: Parameters as the caller built them
    api,        \* per call: the receiver copy of the client value
    genURL,     \* per call: the *url.URL built, stamped and signed
    canonical,  \* per call: sortedParams, the query in the string-to-sign
    signedURL,  \* per call: the string signAmazonURL returned
    body,       \* per call: what genSignAndFetch returned as string
    err,        \* per call: the error in hand
    isr,        \* per call: the ItemSearchResponse of Search
    books,      \* per call: what books.API.Search returned
    hist        \* per call: stages run, clock samples, GETs, failed stage

vars ==
    <<config, config0, pc, entry, args, op, params, params0, api, genURL,
      canonical, signedURL, body, err, isr, books, hist>>

Configs(hosts, clients) ==
    {[AccessKey |-> TestAccessKey, SecretKey |-> TestSecretKey,
      AssociateTag |-> TestAssociateTag, Host |-> h, Client |-> cl] :
        h \in hosts, cl \in clients}

InitCalls ==
    /\ config0 = config
    /\ pc = [c \in Calls |-> "idle"]
    /\ entry = [c \in Calls |-> "none"]
    /\ args = [c \in Calls |-> NoArgs]
    /\ op = [c \in Calls |-> <<>>]
    /\ params = [c \in Calls |-> EmptyValues]
    /\ params0 = [c \in Calls |-> EmptyValues]
    /\ api = [c \in Calls |-> config]
    /\ genURL = [c \in Calls |-> NoURL]
    /\ canonical = [c \in Calls |-> <<>>]
    /\ signedURL = [c \in Calls |-> <<>>]
    /\ body = [c \in Calls |-> EmptyBody]
    /\ err = [c \in Calls |-> NoErr]
    /\ isr = [c \in Calls |-> ZeroISR]
    /\ books = [c \in Calls |-> NilSlice]
    /\ hist = [c \in Calls |-> NoHist]

Init == config \in Configs(Hosts, Clients) /\ InitCalls

InitConc == config \in Configs({GoodHost}, Clients) /\ InitCalls

\* where a call goes when genSignAndFetch returns with error e
AfterReturn(c, e) == IF entry[c] = "direct" THEN "done" ELSE SearchNext(e)

Goto(c, nxt, e) == IF nxt = "return" THEN AfterReturn(c, e) ELSE nxt

(* ---------------------------------------------------------------------- *)
(* Actions                                                                 *)
(* ---------------------------------------------------------------------- *)
\* books.API.Search(keywords, page) -> amazon.Search("Books", keywords, page)
\* -> genSignAndFetch("ItemSearch", params), each on a copy of the client
BooksSearchCall(c, kws, pages) ==
    /\ pc[c] = "idle"
    /\ \E keywords \in kws, page \in pages :
        /\ args' = [args EXCEPT ![c] = [keywords |-> keywords, page |-> page]]
        /\ params' = [params EXCEPT ![c] = SearchParams(StrBooks, keywords, page)]
        /\ params0' = [params0 EXCEPT ![c] = SearchParams(StrBooks, keywords, page)]
    /\ entry' = [entry EXCEPT ![c] = "books"]
    /\ op' = [op EXCEPT ![c] = StrItemSearch]
    /\ api' = [api EXCEPT ![c] = config]
    /\ pc' = [pc EXCEPT ![c] = "generate"]
    /\ UNCHANGED <<config, config0, genURL, canonical, signedURL, body, err, isr,
                   books, hist>>

\* genSignAndFetch(Operation, Parameters) called with a mapping of its own
DirectCall(c) ==
    /\ pc[c] = "idle"
    /\ \E Parameters \in GenParams :
        /\ params' = [params EXCEPT ![c] = Parameters]
        /\ params0' = [params0 EXCEPT ![c] = Parameters]
    /\ entry' = [entry EXCEPT ![c] = "direct"]
    /\ op' = [op EXCEPT ![c] = StrItemLookup]
    /\ api' = [api EXCEPT ![c] = config]
    /\ pc' = [pc EXCEPT ![c] = "generate"]
    /\ UNCHANGED <<config, config0, args, genURL, canonical, signedURL, body, err,
                   isr, books, hist>>

\* genURL, err := generateAmazonURL(api, Operation, Parameters)
GenerateURL(c) ==
    /\ pc[c] = "generate"
    /\ \E values \in {MergedValues(api[c], op[c], params[c], order) :
                        order \in Orders(DOMAIN params[c])} :
        \E r \in {generateAmazonURL(api[c], values)} :
        LET e == IF r.ok THEN NoErr ELSE ErrParse
        IN  /\ genURL' = [genURL EXCEPT ![c] = r.url]
            /\ err' = [err EXCEPT ![c] = e]
            /\ hist' = [hist EXCEPT
                          ![c].trace = IF r.ok THEN Append(@, "merge") ELSE @,
                          ![c].failed = IF r.ok THEN @ ELSE "generate"]
            /\ pc' = [pc EXCEPT ![c] = Goto(c, genSignAndFetchNext("generate", ~r.ok), e)]
    /\ UNCHANGED <<config, config0, entry, args, op, params, params0, api, canonical,
                   signedURL, body, isr, books>>

\* setTimestamp(genURL): its error is dropped by genSignAndFetch
SetTimestamp(c) ==
    /\ pc[c] = "timestamp"
    /\ \E t \in Clock :
        \E r \in {setTimestamp(genURL[c], t)} :
            /\ genURL' = [genURL EXCEPT ![c] = r.url]
            /\ hist' = [hist EXCEPT
                          ![c].trace = IF r.ok THEN @ \o <<"clock", "timestamp">> ELSE @,
                          ![c].clockSamples = @ + r.sampled,
                          ![c].now = IF r.sampled = 1 THEN t ELSE @,
                          ![c].failed = IF r.ok \/ @ # "none" THEN @ ELSE "timestamp"]
            /\ pc' = [pc EXCEPT ![c] = Goto(c, genSignAndFetchNext("timestamp", ~r.ok), err[c])]
    /\ UNCHANGED <<config, config0, entry, args, op, params, params0, api, canonical,
                   signedURL, body, err, isr, books>>

\* signedurl, err := signAmazonURL(genURL, api)
SignURL(c) ==
    /\ pc[c] = "sign"
    /\ \E r \in {signAmazonURL(genURL[c], api[c])} :
       LET e == IF r.ok THEN NoErr ELSE ErrMac
       IN  /\ genURL' = [genURL EXCEPT ![c] = r.url]
           /\ canonical' = [canonical EXCEPT ![c] = r.canonical]
           /\ signedURL' = [signedURL EXCEPT ![c] = r.signed]
           /\ err' = [err EXCEPT ![c] = e]
           /\ hist' = [hist EXCEPT
                         ![c].trace = IF r.ok THEN Append(@, "sign") ELSE @,
                         ![c].failed = IF r.ok \/ @ # "none" THEN @ ELSE "sign"]
           /\ pc' = [pc EXCEPT ![c] = Goto(c, genSignAndFetchNext("sign", ~r.ok), e)]
    /\ UNCHANGED <<config, config0, entry, args, op, params, params0, api, body, isr,
                   books>>

\* the default client put in place of a nil one, Client.Get(signedurl),
\* ioutil.ReadAll(resp.Body), return
Fetch(c, outcomes) ==
    /\ pc[c] = "fetch"
    /\ \E o \in outcomes :
        LET e == CASE o.kind = "transport" -> ErrTransport
                   [] o.kind = "read"      -> ErrRead
                   [] OTHER                -> NoErr
            local == IF api[c].Client = "nil"
                     THEN [api[c] EXCEPT !.Client = "default"]
                     ELSE api[c]
        IN  /\ api' = [api EXCEPT ![c] = local]
            /\ config' = ValueReceiver(config, local)
            /\ body' = [body EXCEPT ![c] = o.body]
            /\ err' = [err EXCEPT ![c] = e]
            /\ hist' = [hist EXCEPT
                          ![c].trace = Append(@, "get"),
                          ![c].gets = @ + 1,
                          ![c].failed = IF e = NoErr \/ @ # "none" THEN @ ELSE o.kind]
            /\ pc' = [pc EXCEPT ![c] = Goto(c, genSignAndFetchNext("fetch", e # NoErr), e)]
    /\ UNCHANGED <<config0, entry, args, op, params, params0, genURL, canonical,
                   signedURL, isr, books>>

\* Search: err = xml.Unmarshal([]byte(result), &isr); return isr, err
Decode(c) ==
    /\ pc[c] = "decode"
    /\ LET r == xmlUnmarshal(body[c])
       IN  /\ isr' = [isr EXCEPT ![c] = r.isr]
           /\ err' = [err EXCEPT ![c] = r.err]
           /\ hist' = [hist EXCEPT
                         ![c].trace = Append(@, "decode"),
                         ![c].failed = IF r.err = NoErr \/ @ # "none" THEN @ ELSE "decode"]
    /\ pc' = [pc EXCEPT ![c] = "books"]
    /\ UNCHANGED <<config, config0, entry, args, op, params, params0, api, genURL,
                   canonical, signedURL, body, books>>

\* books.API.Search: the error passed on, or the items turned into books
BooksReturn(c) ==
    /\ pc[c] = "books"
    /\ LET r == BooksResult(isr[c], err[c])
       IN  /\ books' = [books EXCEPT ![c] = r.books]
           /\ err' = [err EXCEPT ![c] = r.err]
    /\ pc' = [pc EXCEPT ![c] = "done"]
    /\ UNCHANGED <<config, config0, entry, args, op, params, params0, api, genURL,
                   canonical, signedURL, body, isr, hist>>

\* one caller at a time, every input and every answer of the service
Next ==
    \/ BooksSearchCall(1, Keywords, Pages)
    \/ DirectCall(1)
    \/ GenerateURL(1)
    \/ SetTimestamp(1)
    \/ SignURL(1)
    \/ Fetch(1, Outcomes)
    \/ Decode(1)
    \/ BooksReturn(1)

Spec == Init /\ [][Next]_vars

\* NumCalls concurrent callers of books.API.Search on one client value
NextConc ==
    \E c \in Calls :
        \/ BooksSearchCall(c, ConcKeywords, ConcPages)
        \/ GenerateURL(c)
        \/ SetTimestamp(c)
        \/ SignURL(c)
        \/ Fetch(c, ConcOutcomes)
        \/ Decode(c)
        \/ BooksReturn(c)

SpecConc == InitConc /\ [][NextConc]_vars

(* ---------------------------------------------------------------------- *)
(* Properties                                                              *)
(* ---------------------------------------------------------------------- *)
Tokens(query) == Split(query, "&")

TokenKey(tok) == CutBefore(tok, "=")

TokenVal(tok) == CutAfter(tok, "=")

\* the values of the tokens of toks whose key is key
ValuesOf(toks, key) ==
    {TokenVal(toks[i]) : i \in {j \in 1..Len(toks) : TokenKey(toks[j]) = key}}

Occurs(s, sub) == \E i \in 1..(Len(s) - Len(sub) + 1) : SubSeq(s, i, i + Len(sub) - 1) = sub

\* the call has signed its URL and is about to send it; nothing changes the
\* URL, the canonical query or the signed string after this
AfterSign(c) == pc[c] = "fetch"

StageRank(stage) ==
    CASE stage = "merge"     -> 1
      [] stage = "clock"     -> 2
      [] stage = "timestamp" -> 3
      [] stage = "sign"      -> 4
      [] stage = "get"       -> 5
      [] stage = "decode"    -> 6

\* the stages of a trace are in the fixed order, none twice
InStageOrder(trace) ==
    \A i, j \in 1..Len(trace) : i < j => StageRank(trace[i]) < StageRank(trace[j])

FullTrace == <<"merge", "clock", "timestamp", "sign", "get", "decode">>

\* C1 as stated: in every call the stages run in the order merge, Timestamp,
\* sign, GET, decode, each at most once, at most one GET is issued, and the
\* clock is sampled exactly once, after the merge and before signing.
C1_ClockExactlyOnce ==
    \A c \in Calls :
        /\ InStageOrder(hist[c].trace)
        /\ hist[c].gets <= 1
        /\ pc[c] = "done" => hist[c].clockSamples = 1

\* C1 amended: the stages run in the fixed order, each at most once, with
\* at most one GET per call; the clock is sampled at most once, always
\* between the merge and the signing; a finished call has sampled it exactly
\* once if its URL construction succeeded and not at all if it failed.
C1_StageOrder ==
    \A c \in Calls :
        /\ InStageOrder(hist[c].trace)
        /\ hist[c].gets <= 1
        /\ hist[c].clockSamples <= 1
        /\ hist[c].clockSamples = Cardinality({i \in 1..Len(hist[c].trace) :
                                                  hist[c].trace[i] = "clock"})
        /\ \A i \in 1..Len(hist[c].trace) :
              hist[c].trace[i] = "sign" => hist[c].clockSamples = 1
        /\ pc[c] = "done" =>
              hist[c].clockSamples = IF hist[c].failed = "generate" THEN 0 ELSE 1

C1_Witness ==
    \E c \in Calls : pc[c] = "done" /\ hist[c].trace = FullTrace

FixedKeys == {StrOperation, StrService, StrAWSAccessKeyId, StrVersion, StrAssociateTag}

FixedValue(c, key) ==
    CASE key = StrOperation      -> op[c]
      [] key = StrService        -> ServiceName
      [] key = StrAWSAccessKeyId -> config0.AccessKey
      [] key = StrVersion        -> ApiVersion
      [] key = StrAssociateTag   -> config0.AssociateTag

\* C2: the query generateAmazonURL builds holds the fixed and the caller's
\* keys, each with exactly one value: the caller's value for a key the
\* caller supplied (a fixed key such as Operation included), the fixed value
\* otherwise; an empty caller mapping gives exactly the five fixed ones.
C2_MergeOverwrites ==
    \A c \in Calls :
        pc[c] = "timestamp" =>
            \A q \in {ParseQuery(genURL[c].RawQuery)} :
                /\ q.ok
                /\ DOMAIN q.values = FixedKeys \cup DOMAIN params0[c]
                /\ \A k \in DOMAIN q.values :
                      q.values[k] = << IF k \in DOMAIN params0[c]
                                       THEN params0[c][k]
                                       ELSE FixedValue(c, k) >>

C2_Witness ==
    \E c \in Calls :
        /\ pc[c] = "timestamp"
        /\ entry[c] = "direct"
        /\ StrOperation \in DOMAIN params0[c]
        /\ params0[c][StrOperation] = StrCommaValue
        /\ ParseQuery(genURL[c].RawQuery).values[StrOperation] = <<StrCommaValue>>

\* C3: the key=value tokens of the canonical query in the string-to-sign
\* are in non-decreasing order as complete strings.
C3_TokensSorted ==
    \A c \in Calls :
        AfterSign(c) =>
            \A toks \in {Tokens(canonical[c])} :
                \A i \in 1..(Len(toks) - 1) : StrLeq(toks[i], toks[i + 1])

\* a call whose keys sort one way and whose tokens sort the other way
C3_Witness ==
    \E c \in Calls :
        /\ AfterSign(c)
        /\ {StrItemId, StrItemId1} \subseteq DOMAIN params0[c]
        /\ StrLess(StrItemId, StrItemId1)
        /\ \A toks \in {Tokens(canonical[c])} :
              \E i, j \in 1..Len(toks) :
                  /\ i < j
                  /\ TokenKey(toks[i]) = QueryEscape(StrItemId1)
                  /\ TokenKey(toks[j]) = QueryEscape(StrItemId)

HasCommaOrColon(s) == Contains(s, ",") \/ Contains(s, ":")

\* C4: neither the canonical query that is signed nor the final signed
\* query holds a raw comma or colon; the colons of the Timestamp are there
\* as %3A, and a comma of a caller parameter as %2C.
C4_NoRawCommaColon ==
    \A c \in Calls :
        AfterSign(c) =>
            /\ ~HasCommaOrColon(canonical[c])
            /\ ~HasCommaOrColon(genURL[c].RawQuery)
            /\ Occurs(canonical[c], <<"%", "3", "A">>)
            /\ Occurs(genURL[c].RawQuery, <<"%", "3", "A">>)
            /\ (\E k \in DOMAIN params0[c] :
                    Contains(k, ",") \/ Contains(params0[c][k], ","))
                  => Occurs(canonical[c], <<"%", "2", "C">>)

C4_Witness ==
    \E c \in Calls :
        /\ AfterSign(c)
        /\ StrOddKey \in DOMAIN params0[c]
        /\ params0[c][StrOddKey] = StrCommaValue
        /\ Occurs(canonical[c], QueryEscape(StrOddKey) \o <<"=">> \o QueryEscape(StrCommaValue))

\* C5: two signed URLs of the same client, operation and caller parameters
\* have the same scheme, host and path and the same parameter names at the
\* same positions, and differ at most in the values of Timestamp and
\* Signature.
C5_OnlyTimestampAndSignatureDiffer ==
    \A c1, c2 \in Calls :
        (/\ c1 < c2
         /\ AfterSign(c1) /\ AfterSign(c2)
         /\ op[c1] = op[c2] /\ params0[c1] = params0[c2]) =>
            /\ genURL[c1].Scheme = genURL[c2].Scheme
            /\ genURL[c1].Host = genURL[c2].Host
            /\ genURL[c1].Path = genURL[c2].Path
            /\ \A t1 \in {Tokens(genURL[c1].RawQuery)}, t2 \in {Tokens(genURL[c2].RawQuery)} :
                  /\ Len(t1) = Len(t2)
                  /\ \A i \in 1..Len(t1) :
                        /\ TokenKey(t1[i]) = TokenKey(t2[i])
                        /\ t1[i] # t2[i] => TokenKey(t1[i]) \in {StrTimestamp, StrSignature}

C5_Witness ==
    \E c1, c2 \in Calls :
        /\ c1 < c2
        /\ AfterSign(c1) /\ AfterSign(c2)
        /\ op[c1] = op[c2] /\ params0[c1] = params0[c2]
        /\ hist[c1].now # hist[c2].now
        /\ ValuesOf(Tokens(genURL[c1].RawQuery), StrTimestamp)
              # ValuesOf(Tokens(genURL[c2].RawQuery), StrTimestamp)

ErrOfStage(stage) ==
    CASE stage = "generate"  -> ErrParse
      [] stage = "timestamp" -> ErrParseQuery
      [] stage = "sign"      -> ErrMac
      [] stage = "transport" -> ErrTransport
      [] stage = "read"      -> ErrRead
      [] stage = "decode"    -> ErrXml

C7_InvalidEmptyIsNoError ==
    \A c \in Calls :
        (pc[c] = "done" /\ entry[c] = "books" /\ body[c].wellFormed) =>
            /\ err[c] = NoErr
            /\ isr[c].IsValid = body[c].IsValid
            /\ isr[c].Items = body[c].Items
            /\ ~books[c].isNil
            /\ Len(books[c].list) = Len(body[c].Items)

C7_Witness ==
    \E c \in Calls :
        /\ pc[c] = "done"
        /\ body[c] = BodyInvalidEmpty
        /\ err[c] = NoErr
        /\ isr[c] = [IsValid |-> FALSE, Items |-> <<>>]
        /\ books[c] = [isNil |-> FALSE, list |-> <<>>]

\* C8: when the fetched body does not parse, Search fails with a decode
\* error that carries the raw response body.
C8_DecodeErrorCarriesBody ==
    \A c \in Calls :
        (pc[c] = "done" /\ entry[c] = "books" /\ hist[c].failed = "decode") =>
            /\ err[c].kind = "xml.Unmarshal"
            /\ err[c].carries = "body"

\* the alone run of call c: its signed URL computed from the client as
\* constructed, the call's own operation and parameters and its clock sample
AloneSignedURL(c) ==
    signAmazonURL(
        setTimestamp(
            generateAmazonURL(config0,
                MergedValues(config0, op[c], params0[c],
                             SortedKeys(DOMAIN params0[c]))).url,
            hist[c].now).url,
        config0).signed

\* C9: whatever the interleaving, the client value the callers hold and each
\* call's parameter mapping stay as they were, also once a call has put the
\* default HTTP client in its copy, and each call's signed URL is the one
\* the call yields alone with the same clock sample.
C9_NoSharedMutableState ==
    /\ config = config0
    /\ \A c \in Calls :
          /\ params[c] = params0[c]
          /\ AfterSign(c) => signedURL[c] = AloneSignedURL(c)

C9_Witness ==
    \E c1, c2 \in Calls :
        /\ c1 # c2
        /\ config0.Client = "nil"
        /\ pc[c1] = "done" /\ api[c1].Client = "default"
        /\ AfterSign(c2) /\ api[c2].Client = "nil"
        /\ hist[c1].now # hist[c2].now

\* C10: in the signed query of a Search the Keywords value is the keywords
\* escaped twice, so decoding it once gives the keywords escaped once, which
\* is the keywords themselves only if escaping changes none of their
\* characters; every other value is escaped once.
C10_KeywordsEscapedTwice ==
    \A c \in Calls :
        (AfterSign(c) /\ entry[c] = "books") =>
            \A toks \in {Tokens(genURL[c].RawQuery)} :
                /\ ValuesOf(toks, StrKeywords) = {QueryEscape(QueryEscape(args[c].keywords))}
                /\ \A v \in ValuesOf(toks, StrKeywords) :
                      /\ QueryUnescape(v).val = QueryEscape(args[c].keywords)
                      /\ QueryUnescape(v).val = args[c].keywords
                            <=> \A i \in 1..Len(args[c].keywords) :
                                    Unreserved(args[c].keywords[i])
                /\ ValuesOf(toks, StrSearchIndex) = {QueryEscape(StrBooks)}
                /\ ValuesOf(toks, StrItemPage) = {QueryEscape(FormatInt(args[c].page))}
                /\ ValuesOf(toks, StrResponseGroup) = {QueryEscape(SearchResponseGroup)}
                /\ ValuesOf(toks, StrTimestamp) = {QueryEscape(FormatRFC3339(hist[c].now))}
                /\ \A k \in FixedKeys : ValuesOf(toks, k) = {QueryEscape(FixedValue(c, k))}

C10_Witness ==
    \E c \in Calls :
        /\ AfterSign(c)
        /\ entry[c] = "books"
        /\ args[c].keywords = <<" ", "%">>
        /\ ValuesOf(Tokens(genURL[c].RawQuery), StrKeywords)
              = {<<"%", "2", "B", "%", "2", "5", "2", "5">>}

====
